---- MODULE Spec2Model ----
(***************************************************************************)
(* Release-notes scraper: the two HTML parsers                             *)
(* (.github/scripts/parse_release_notes_playwright.py and                  *)
(* .github/scripts/parse_release_notes.py) and the translator              *)
(* (.github/scripts/translate_with_openai.py).                             *)
(*                                                                         *)
(* Text is a sequence of one-character strings, so that len(), strip(),    *)
(* lstrip(), substring tests and the version regular expression are        *)
(* computed as Python computes them.  A DOM node is a record; a parsed     *)
(* document is the BeautifulSoup root node; an element is addressed by the *)
(* path of child indices from the root, and document order is the          *)
(* pre-order of paths.                                                     *)
(***************************************************************************)
EXTENDS Integers, Sequences, FiniteSets, TLC

VARIABLES variant, url, soup, pc, version, candidates, features, scans,
          html, run, first,
          tin, tpc, ti, tcalls, tout,
          rin, rpc, rout,
          api_key, skip_translation, input, mpc, data, stdout, status

parserVars == <<variant, url, soup, pc, version, candidates, features, scans,
                html, run, first>>
translatorVars == <<tin, tpc, ti, tcalls, tout>>
rendererVars == <<rin, rpc, rout>>
mainVars == <<api_key, skip_translation, input, mpc, data, stdout, status>>
vars == <<variant, url, soup, pc, version, candidates, features, scans,
          html, run, first,
          tin, tpc, ti, tcalls, tout,
          rin, rpc, rout,
          api_key, skip_translation, input, mpc, data, stdout, status>>

----------------------------------------------------------------------------
(* Bounds of the model *)

MaxBlocks == 4
MaxFeatures == 2
MaxItems == 2

(* Constants of the program *)

MinHeadingLen == 3
MinTextLen == 10
MinListTitleLen == 3
DescriptionCap == 1000

----------------------------------------------------------------------------
(* Text literals of the program *)

T_General == <<"G","e","n","e","r","a","l">>
T_Unknown == <<"U","n","k","n","o","w","n">>
T_V129 == <<"1","2","9",".","0",".","0">>
T_U129 == <<"1","2","9","-","0","-","0">>
T_NoDesc == <<"N","o"," ","d","e","s","c","r","i","p","t","i","o","n"," ","a","v","a","i","l","a","b","l","e">>
T_WpUploads == <<"w","p","-","c","o","n","t","e","n","t","/","u","p","l","o","a","d","s">>
T_Http == <<"h","t","t","p">>
T_HttpS == <<"h","t","t","p","s",":","/","/">>
T_HttpP == <<"h","t","t","p",":","/","/">>
T_Mailto == <<"m","a","i","l","t","o",":">>
T_Base == <<"h","t","t","p","s",":","/","/","d","o","c","s",".","n","e","t","s","k","o","p","e",".","c","o","m">>
T_Logo == <<"l","o","g","o">>
T_Icon == <<"i","c","o","n">>
T_Data == <<"d","a","t","a",":">>
T_Image == <<"I","m","a","g","e">>
T_Release == <<"R","e","l","e","a","s","e">>
(* the one character U+0060, which a TLA+ string literal cannot hold *)
T_Backtick == "U+0060"

----------------------------------------------------------------------------
(* Python string operations on texts *)

Whitespace == {" ", "\n", "\t"}
Digits == {"0","1","2","3","4","5","6","7","8","9"}
VersionSeps == {".", "-"}

RECURSIVE LStripSet(_, _)
LStripSet(s, chars) ==
    IF s = <<>> \/ Head(s) \notin chars THEN s ELSE LStripSet(Tail(s), chars)

RECURSIVE RStripSet(_, _)
RStripSet(s, chars) ==
    IF s = <<>> \/ s[Len(s)] \notin chars THEN s
    ELSE RStripSet(SubSeq(s, 1, Len(s) - 1), chars)

Strip(s) == RStripSet(LStripSet(s, Whitespace), Whitespace)

StartsWith(s, prefix) ==
    Len(prefix) <= Len(s) /\ SubSeq(s, 1, Len(prefix)) = prefix

Contains(s, sub) ==
    \E i \in 1..(Len(s) - Len(sub) + 1) : SubSeq(s, i, i + Len(sub) - 1) = sub

RECURSIVE Join(_, _)
Join(parts, sep) ==
    IF parts = <<>> THEN <<>>
    ELSE IF Len(parts) = 1 THEN parts[1]
    ELSE parts[1] \o sep \o Join(Tail(parts), sep)

UpperCase == <<"A","B","C","D","E","F","G","H","I","J","K","L","M",
               "N","O","P","Q","R","S","T","U","V","W","X","Y","Z">>
LowerCase == <<"a","b","c","d","e","f","g","h","i","j","k","l","m",
               "n","o","p","q","r","s","t","u","v","w","x","y","z">>

LowerChar(c) ==
    IF \E k \in 1..26 : UpperCase[k] = c
    THEN LowerCase[CHOOSE k \in 1..26 : UpperCase[k] = c]
    ELSE c

Lower(s) == [k \in 1..Len(s) |-> LowerChar(s[k])]

ReplaceChar(s, from, to) == [k \in 1..Len(s) |-> IF s[k] = from THEN to ELSE s[k]]

DigitChars == <<"0","1","2","3","4","5","6","7","8","9">>

RECURSIVE Str(_)
Str(n) ==
    IF n < 10 THEN <<DigitChars[n + 1]>>
    ELSE Str(n \div 10) \o <<DigitChars[(n % 10) + 1]>>

----------------------------------------------------------------------------
(* re.search(r'(\d+[\.\-]\d+[\.\-]\d+)', text) *)

RECURSIVE DigitsEnd(_, _)
DigitsEnd(s, i) ==
    IF i <= Len(s) /\ s[i] \in Digits THEN DigitsEnd(s, i + 1) ELSE i - 1

SepAt(s, i) == i <= Len(s) /\ s[i] \in VersionSeps

MatchThird(s, b, c) == IF c >= b + 2 THEN c ELSE 0
MatchSecond(s, a, b) ==
    IF b >= a + 2 /\ SepAt(s, b + 1) THEN MatchThird(s, b, DigitsEnd(s, b + 2)) ELSE 0
MatchFirst(s, i, a) ==
    IF a >= i /\ SepAt(s, a + 1) THEN MatchSecond(s, a, DigitsEnd(s, a + 2)) ELSE 0
MatchEnd(s, i) == MatchFirst(s, i, DigitsEnd(s, i))

MinOf(S) == CHOOSE k \in S : \A m \in S : k <= m
MaxOf(S) == CHOOSE k \in S : \A m \in S : k >= m

LeftmostMatch(s, starts) ==
    IF starts = {} THEN <<>> ELSE SubSeq(s, MinOf(starts), MatchEnd(s, MinOf(starts)))

VersionSearch(s) == LeftmostMatch(s, {i \in 1..Len(s) : MatchEnd(s, i) # 0})

----------------------------------------------------------------------------
(* DOM nodes (bs4 Tag and NavigableString) *)

NoPath == <<0>>
HeadingTags == {"h3", "h4", "h5", "h6"}

Txt(s) == [tag |-> "#text", cls |-> {}, href |-> <<>>, src |-> <<>>,
           alt |-> <<>>, text |-> s, kids |-> <<>>]
ElC(tag, cls, kids) == [tag |-> tag, cls |-> cls, href |-> <<>>, src |-> <<>>,
                        alt |-> <<>>, text |-> <<>>, kids |-> kids]
El(tag, kids) == ElC(tag, {}, kids)
Img(src, alt) == [tag |-> "img", cls |-> {}, href |-> <<>>, src |-> src,
                  alt |-> alt, text |-> <<>>, kids |-> <<>>]
Link(href, kids) == [tag |-> "a", cls |-> {}, href |-> href, src |-> <<>>,
                     alt |-> <<>>, text |-> <<>>, kids |-> kids]
Extracted == El("#extracted", <<>>)

IsTag(n) == n.tag \notin {"#text", "#extracted"}

RECURSIVE NodeAt(_, _)
NodeAt(n, path) ==
    IF path = <<>> THEN n ELSE NodeAt(n.kids[Head(path)], Tail(path))

RECURSIVE ReplaceAt(_, _, _)
ReplaceAt(n, path, new) ==
    IF path = <<>> THEN new
    ELSE [n EXCEPT !.kids[Head(path)] = ReplaceAt(n.kids[Head(path)], Tail(path), new)]

ParentPath(path) == SubSeq(path, 1, Len(path) - 1)
IndexOf(path) == path[Len(path)]

RECURSIVE DescFrom(_, _, _)
DescFrom(n, path, i) ==
    IF i > Len(n.kids) THEN <<>>
    ELSE <<Append(path, i)>> \o DescFrom(n.kids[i], Append(path, i), 1)
                            \o DescFrom(n, path, i + 1)

Descendants(root, path) == DescFrom(NodeAt(root, path), path, 1)

FindAll(root, path, tags) ==
    SelectSeq(Descendants(root, path), LAMBDA q : NodeAt(root, q).tag \in tags)

FindAllClass(root, path, c) ==
    SelectSeq(Descendants(root, path),
              LAMBDA q : IsTag(NodeAt(root, q)) /\ c \in NodeAt(root, q).cls)

First(paths) == IF paths = <<>> THEN NoPath ELSE paths[1]

Find(root, path, tags) == First(FindAll(root, path, tags))
FindClass(root, path, c) == First(FindAllClass(root, path, c))

TagMatches(n, tags) == IsTag(n) /\ (tags = {} \/ n.tag \in tags)

SiblingMatches(root, path, j, tags) ==
    TagMatches(NodeAt(root, ParentPath(path)).kids[j], tags)

NearestAfter(parent, js) == IF js = {} THEN NoPath ELSE Append(parent, MinOf(js))
NearestBefore(parent, js) == IF js = {} THEN NoPath ELSE Append(parent, MaxOf(js))
NearestAncestor(path, ks) == IF ks = {} THEN NoPath ELSE SubSeq(path, 1, MaxOf(ks))

FindNextSibling(root, path, tags) ==
    IF path = <<>> THEN NoPath
    ELSE NearestAfter(ParentPath(path),
             {j \in (IndexOf(path) + 1)..Len(NodeAt(root, ParentPath(path)).kids) :
                 SiblingMatches(root, path, j, tags)})

FindPreviousSibling(root, path, tags) ==
    IF path = <<>> THEN NoPath
    ELSE NearestBefore(ParentPath(path),
             {j \in 1..(IndexOf(path) - 1) : SiblingMatches(root, path, j, tags)})

FindParent(root, path, tags) ==
    NearestAncestor(path,
        {k \in 0..(Len(path) - 1) : NodeAt(root, SubSeq(path, 1, k)).tag \in tags})

RECURSIVE GetTextFrom(_, _, _)
GetTextFrom(n, i, strip) ==
    IF n.tag = "#text" THEN (IF strip THEN Strip(n.text) ELSE n.text)
    ELSE IF i > Len(n.kids) THEN <<>>
    ELSE GetTextFrom(n.kids[i], 1, strip) \o GetTextFrom(n, i + 1, strip)

GetTextStrip(n) == GetTextFrom(n, 1, TRUE)
GetText(n) == GetTextFrom(n, 1, FALSE)

(* document order of two paths: p strictly before q in pre-order *)
RECURSIVE Before(_, _)
Before(p, q) ==
    IF p = <<>> THEN q # <<>>
    ELSE IF q = <<>> THEN FALSE
    ELSE IF Head(p) # Head(q) THEN Head(p) < Head(q)
    ELSE Before(Tail(p), Tail(q))

----------------------------------------------------------------------------
(* Markdown rendering (Playwright parser) *)

ResolveHref(href) ==
    IF StartsWith(href, <<"/">>) THEN T_Base \o href
    ELSE IF ~(StartsWith(href, T_HttpP) \/ StartsWith(href, T_HttpS)
              \/ StartsWith(href, T_Mailto) \/ StartsWith(href, <<"#">>))
    THEN T_Base \o <<"/">> \o href
    ELSE href

ResolveSrc(src) ==
    IF StartsWith(src, <<"/">>) THEN T_Base \o src
    ELSE IF ~(StartsWith(src, T_HttpP) \/ StartsWith(src, T_HttpS))
    THEN T_Base \o <<"/">> \o src
    ELSE src

(* mutant of IsIconOrLogo: the substrings are looked for in src as written *)
IsIconOrLogoAsWritten(src, lowered) ==
    Contains(src, T_Logo) \/ Contains(src, T_Icon) \/ StartsWith(src, T_Data)

IsIconOrLogo(src, lowered) ==
    Contains(lowered, T_Logo) \/ Contains(lowered, T_Icon) \/ StartsWith(src, T_Data)

ImageToMarkdown(img) ==
    IF img.src = <<>> THEN <<>>
    ELSE IF IsIconOrLogo(img.src, Lower(img.src)) THEN <<>>
    ELSE <<"!", "[">> \o (IF img.alt = <<>> THEN T_Image ELSE img.alt)
         \o <<"]", "(">> \o ResolveSrc(img.src) \o <<")">>

RECURSIVE ConvertElementToMarkdown(_)
RECURSIVE ConvertChildren(_, _)

(* "if text: result.append(f'{mark}{text}{mark}')" *)
Wrapped(mark, text) == IF text # <<>> THEN mark \o text \o mark ELSE <<>>

LinkToMarkdown(link_text, href) ==
    IF href # <<>>
    THEN <<"[">> \o link_text \o <<"]", "(">> \o ResolveHref(href) \o <<")">>
    ELSE link_text

(* the text rendered for a child that is a Tag; rendered is the recursive  *)
(* rendering of the child, text its get_text(strip=True)                   *)
ConvertTag(child, rendered, text) ==
    IF child.tag = "a" THEN LinkToMarkdown(text, child.href)
    ELSE IF child.tag = "img" THEN ImageToMarkdown(child)
    ELSE IF child.tag \in {"strong", "b"} THEN Wrapped(<<"*", "*">>, rendered)
    ELSE IF child.tag \in {"em", "i"} THEN Wrapped(<<"*">>, rendered)
    ELSE IF child.tag = "code" THEN Wrapped(<<T_Backtick>>, text)
    ELSE IF child.tag = "br" THEN <<"\n">>
    ELSE rendered

ConvertChild(child) ==
    IF child.tag = "#text" THEN Strip(child.text)
    ELSE ConvertTag(child, ConvertElementToMarkdown(child), GetTextStrip(child))

(* filter(None, result) *)
NonEmpty(piece) == IF piece # <<>> THEN <<piece>> ELSE <<>>

ConvertChildren(n, i) ==
    IF i > Len(n.kids) THEN <<>>
    ELSE NonEmpty(ConvertChild(n.kids[i])) \o ConvertChildren(n, i + 1)

ConvertElementToMarkdown(n) ==
    IF n.tag = "#text" THEN Strip(n.text)
    ELSE Join(ConvertChildren(n, 1), <<" ">>)

ProcessElementWithImages(n) == ConvertElementToMarkdown(n)

RECURSIVE ListItems(_, _, _, _)
ListItems(root, lis, i, ordered) ==
    IF i > Len(lis) THEN <<>>
    ELSE <<(IF ordered THEN Str(i) \o <<".", " ">> ELSE <<"-", " ">>)
           \o ConvertElementToMarkdown(NodeAt(root, lis[i]))>>
         \o ListItems(root, lis, i + 1, ordered)

ExtractTextContent(root, path) ==
    IF NodeAt(root, path).tag \in {"ul", "ol"}
    THEN Join(ListItems(root, FindAll(root, path, {"li"}), 1,
                        NodeAt(root, path).tag = "ol"),
              <<"\n">>)
    ELSE ConvertElementToMarkdown(NodeAt(root, path))

----------------------------------------------------------------------------
(* get_following_description: the sibling scan after a heading.  The scan  *)
(* returns the accumulated parts and, for the record, how many of them the *)
(* last visited sibling contributed.                                       *)

AddImage(parts, src, img_markdown) ==
    IF src # <<>>
       /\ (Contains(src, T_WpUploads) \/ StartsWith(src, T_Http))
       /\ img_markdown # <<>> /\ ~Contains(Join(parts, <<"\n">>), img_markdown)
    THEN Append(parts, img_markdown)
    ELSE parts

RECURSIVE AddImages(_, _, _, _)
AddImages(root, imgs, i, parts) ==
    IF i > Len(imgs) THEN parts
    ELSE AddImages(root, imgs, i + 1,
                   AddImage(parts, NodeAt(root, imgs[i]).src,
                            ImageToMarkdown(NodeAt(root, imgs[i]))))

(* mutant of CapExceeded: the cap is compared with the number of parts *)
CapExceededCountsParts(parts) == Len(parts) > DescriptionCap

CapExceeded(parts) == Len(Join(parts, <<"\n">>)) > DescriptionCap

JoinDescription(parts) == Join(parts, <<"\n", "\n">>)

AddText(parts, text) ==
    IF Len(text) > MinTextLen THEN Append(parts, LStripSet(text, {":", " "})) ELSE parts

(* the parts after one sibling: its images, then its text *)
AddSibling(root, sib, parts) ==
    AddText(AddImages(root, FindAll(root, sib, {"img"}), 1, parts),
            ExtractTextContent(root, sib))

RECURSIVE ScanSiblings(_, _, _, _)
RECURSIVE ScanOn(_, _, _, _)

(* after a sibling: stop when the cap is exceeded, else go to the next one *)
ScanOn(root, sib, before, parts) ==
    IF CapExceeded(parts)
    THEN [parts |-> parts, lastN |-> Len(parts) - Len(before)]
    ELSE ScanSiblings(root, FindNextSibling(root, sib, {}), parts,
                      Len(parts) - Len(before))

ScanSiblings(root, sib, parts, lastN) ==
    IF sib = NoPath \/ NodeAt(root, sib).tag \in HeadingTags
    THEN [parts |-> parts, lastN |-> lastN]
    ELSE ScanOn(root, sib, parts, AddSibling(root, sib, parts))

ScanAfter(root, path) == ScanSiblings(root, FindNextSibling(root, path, {}), <<>>, 0)

GetFollowingDescription(root, path) == JoinDescription(ScanAfter(root, path).parts)

----------------------------------------------------------------------------
(* Features.  strategy and pos record where a feature came from (the       *)
(* strategy that emitted it and the path of its source element); the       *)
(* program's Feature has the other three fields.                           *)

Feature(title, description, category, strategy, pos) ==
    [title |-> title, description |-> description, category |-> category,
     strategy |-> strategy, pos |-> pos]

Plain(f) == [title |-> f.title, description |-> f.description, category |-> f.category]

----------------------------------------------------------------------------
(* Playwright parser: extract_version *)

ExtractVersion(u, root) ==
    IF Contains(u, T_U129) THEN T_V129
    ELSE LET title == Find(root, <<>>, {"title"})
             match == VersionSearch(GetText(NodeAt(root, title)))
         IN  IF title # NoPath /\ match # <<>>
             THEN ReplaceChar(match, "-", ".")
             ELSE T_Unknown

----------------------------------------------------------------------------
(* Playwright parser: parse_by_headings *)

(* the call of get_following_description at heading p, as recorded *)
Logged(p, scan) ==
    [heading |-> p, parts |-> scan.parts, lastN |-> scan.lastN,
     result |-> JoinDescription(scan.parts)]

(* features.append(Feature(...)) after a call of get_following_description *)
Emitted(acc, p, text, scan) ==
    [acc EXCEPT !.feats = Append(@, Feature(text, JoinDescription(scan.parts),
                                            acc.category, "headings", p)),
                !.scans = Append(@, Logged(p, scan))]

(* a call of get_following_description that is followed by no append *)
Skipped(acc, p, scan) == [acc EXCEPT !.scans = Append(@, Logged(p, scan))]

IsH3At(root, path) == path # NoPath /\ NodeAt(root, path).tag = "h3"

(* mutant of IsLastH3: any h3 after a category counts as following it *)
IsLastH3Always(root, acc, prev) == TRUE

(* "prev and prev == last_h3", with bs4's structural equality of tags *)
IsLastH3(root, acc, prev) ==
    prev # NoPath /\ NodeAt(root, prev) = NodeAt(root, acc.last_h3)

(* an h3 that is not followed by another h3 *)
H3Title(root, acc, p, text, scan) ==
    IF JoinDescription(scan.parts) # <<>>
       \/ (acc.last_h3 # NoPath /\ NodeAt(root, p) # NodeAt(root, acc.last_h3))
    THEN (IF acc.last_h3 # NoPath
             /\ IsLastH3(root, acc, FindPreviousSibling(root, p, HeadingTags))
          THEN Emitted(acc, p, text, scan)
          ELSE IF JoinDescription(scan.parts) # <<>>
          THEN Emitted(acc, p, text, scan)
          ELSE Skipped(acc, p, scan))
    ELSE Skipped(acc, p, scan)

HeadingBody(root, acc, p, text, scan) ==
    IF text = <<>> \/ Len(text) < MinHeadingLen THEN acc
    ELSE IF NodeAt(root, p).tag = "h3" THEN
        (IF IsH3At(root, FindNextSibling(root, p, HeadingTags))
         THEN [acc EXCEPT !.category = text, !.last_h3 = p]
         ELSE H3Title(root, acc, p, text, scan))
    ELSE IF JoinDescription(scan.parts) # <<>>
    THEN Emitted(acc, p, text, scan)
    ELSE Skipped(acc, p, scan)

HeadingVisit(root, acc, p) ==
    HeadingBody(root, acc, p, GetTextStrip(NodeAt(root, p)), ScanAfter(root, p))

RECURSIVE HeadingLoop(_, _, _, _)
HeadingLoop(root, elements, i, acc) ==
    IF i > Len(elements) THEN acc
    ELSE HeadingLoop(root, elements, i + 1, HeadingVisit(root, acc, elements[i]))

HeadingScan(root) ==
    HeadingLoop(root, FindAll(root, <<>>, HeadingTags), 1,
                [category |-> T_General, last_h3 |-> NoPath,
                 feats |-> <<>>, scans |-> <<>>])

(* mutant of ParseByHeadings: each feature is put in front of the list *)
ParseByHeadingsPrepending(root) ==
    LET feats == HeadingScan(root).feats
    IN  [k \in 1..Len(feats) |-> feats[Len(feats) + 1 - k]]

ParseByHeadings(root) == HeadingScan(root).feats

----------------------------------------------------------------------------
(* Playwright parser: parse_by_classes *)

ClassPatterns ==
    << <<"feature-item", "feature-title", "feature-description">>,
       <<"release-item", "release-title", "release-content">>,
       <<"enhancement", "title", "content">>,
       <<"card", "card-title", "card-body">> >>

GuessCategory(root, path) ==
    LET parent == FindParent(root, path, {"section", "div", "article"})
        heading == Find(root, parent, {"h3", "h2"})
    IN  IF parent # NoPath /\ heading # NoPath
        THEN GetTextStrip(NodeAt(root, heading))
        ELSE T_General

ContainerFeature(root, container, pattern) ==
    LET title_elem == FindClass(root, container, pattern[2])
        desc_elem == FindClass(root, container, pattern[3])
    IN  IF title_elem # NoPath /\ desc_elem # NoPath
        THEN <<Feature(GetTextStrip(NodeAt(root, title_elem)),
                       GetTextStrip(NodeAt(root, desc_elem)),
                       GuessCategory(root, container), "classes", container)>>
        ELSE <<>>

RECURSIVE ContainerLoop(_, _, _, _)
ContainerLoop(root, containers, i, pattern) ==
    IF i > Len(containers) THEN <<>>
    ELSE ContainerFeature(root, containers[i], pattern)
         \o ContainerLoop(root, containers, i + 1, pattern)

RECURSIVE PatternLoop(_, _)
PatternLoop(root, k) ==
    IF k > Len(ClassPatterns) THEN <<>>
    ELSE ContainerLoop(root, FindAllClass(root, <<>>, ClassPatterns[k][1]), 1,
                       ClassPatterns[k])
         \o PatternLoop(root, k + 1)

ParseByClasses(root) == PatternLoop(root, 1)

----------------------------------------------------------------------------
(* Playwright parser: parse_by_lists.  title_elem.extract() takes the bold *)
(* element out of the tree: the element is replaced by a node that no      *)
(* search matches and that renders to nothing, so that the paths of the    *)
(* other elements stay as they were.                                       *)

OrNoDescription(description) ==
    IF description # <<>> THEN description ELSE T_NoDesc

(* title is the text of the bold element, after the tree without it *)
ListItemTake(acc, li, title, after) ==
    IF title # <<>> /\ Len(title) > MinListTitleLen
    THEN [acc EXCEPT !.soup = after,
                     !.feats = Append(@,
                         Feature(title,
                                 OrNoDescription(ProcessElementWithImages(NodeAt(after, li))),
                                 acc.category, "lists", li))]
    ELSE [acc EXCEPT !.soup = after]

ListItemBold(acc, li, title_elem) ==
    IF title_elem = NoPath THEN acc
    ELSE ListItemTake(acc, li, GetTextStrip(NodeAt(acc.soup, title_elem)),
                      ReplaceAt(acc.soup, title_elem, Extracted))

ListItemVisit(acc, li) == ListItemBold(acc, li, Find(acc.soup, li, {"strong", "b"}))

RECURSIVE ListItemLoop(_, _, _)
ListItemLoop(acc, lis, i) ==
    IF i > Len(lis) THEN acc
    ELSE ListItemLoop(ListItemVisit(acc, lis[i]), lis, i + 1)

ListVisit(acc, list_elem) ==
    LET prev == FindPreviousSibling(acc.soup, list_elem, {"h3", "h4", "h5"})
        withCategory == IF prev # NoPath
                        THEN [acc EXCEPT !.category = GetTextStrip(NodeAt(acc.soup, prev))]
                        ELSE acc
    IN  ListItemLoop(withCategory, FindAll(acc.soup, list_elem, {"li"}), 1)

RECURSIVE ListLoop(_, _, _)
ListLoop(acc, lists, i) ==
    IF i > Len(lists) THEN acc
    ELSE ListLoop(ListVisit(acc, lists[i]), lists, i + 1)

ParseByLists(root) ==
    ListLoop([soup |-> root, category |-> T_General, feats |-> <<>>],
             FindAll(root, <<>>, {"ul", "ol"}), 1)

----------------------------------------------------------------------------
(* Playwright parser: the duplicate filter of parse_html *)

RECURSIVE DedupLoop(_, _, _, _)
DedupLoop(feats, i, seen_titles, out) ==
    IF i > Len(feats) THEN out
    ELSE IF feats[i].title \notin seen_titles
    THEN DedupLoop(feats, i + 1, seen_titles \cup {feats[i].title}, Append(out, feats[i]))
    ELSE DedupLoop(feats, i + 1, seen_titles, out)

(* mutant of RemoveDuplicates: the seen-set holds (title, category) pairs *)
RemoveDuplicatesByPair(feats) ==
    LET RECURSIVE Loop(_, _, _)
        Loop(i, seen, out) ==
            IF i > Len(feats) THEN out
            ELSE IF <<feats[i].title, feats[i].category>> \notin seen
            THEN Loop(i + 1, seen \cup {<<feats[i].title, feats[i].category>>},
                      Append(out, feats[i]))
            ELSE Loop(i + 1, seen, out)
    IN  Loop(1, {}, <<>>)

RemoveDuplicates(feats) == DedupLoop(feats, 1, {}, <<>>)

----------------------------------------------------------------------------
(* Static parser (parse_release_notes.py) *)

StaticExtractVersion(u, root) ==
    IF Contains(u, T_U129) THEN T_V129
    ELSE LET title == Find(root, <<>>, {"title"})
             title_text == GetText(NodeAt(root, title))
             match == VersionSearch(title_text)
         IN  IF title # NoPath /\ Contains(title_text, T_Release) /\ match # <<>>
             THEN ReplaceChar(match, "-", ".")
             ELSE T_Unknown

(* The documents of the model carry no role and no id attribute, so the    *)
(* selectors [role="main"] and #content select nothing.                    *)
FindContentArea(root) ==
    LET byTag(t) == Find(root, <<>>, {t})
        byClass(c) == FindClass(root, <<>>, c)
        selected == << byTag("main"), byTag("article"), byClass("content"),
                       byClass("main-content"), byClass("documentation-content") >>
        hits == {k \in 1..Len(selected) : selected[k] # NoPath}
    IN  IF hits # {} THEN selected[CHOOSE k \in hits : \A m \in hits : k <= m]
        ELSE byTag("body")

RECURSIVE StaticListItems(_, _, _, _)
StaticListItems(root, lis, i, ordered) ==
    IF i > Len(lis) THEN <<>>
    ELSE <<(IF ordered THEN Str(i) \o <<".", " ">> ELSE <<"-", " ">>)
           \o GetTextStrip(NodeAt(root, lis[i]))>>
         \o StaticListItems(root, lis, i + 1, ordered)

StaticExtractTextContent(root, path) ==
    LET n == NodeAt(root, path)
    IN  IF n.tag = "ul"
        THEN Join(StaticListItems(root, FindAll(root, path, {"li"}), 1, FALSE), <<"\n">>)
        ELSE IF n.tag = "ol"
        THEN Join(StaticListItems(root, FindAll(root, path, {"li"}), 1, TRUE), <<"\n">>)
        ELSE GetTextStrip(n)

RECURSIVE SummaryLoop(_, _, _, _)
SummaryLoop(root, summaries, i, category) ==
    IF i > Len(summaries) THEN <<>>
    ELSE LET content == FindNextSibling(root, summaries[i], {})
         IN  (IF content # NoPath
              THEN <<Feature(GetTextStrip(NodeAt(root, summaries[i])),
                             StaticExtractTextContent(root, content),
                             category, "accordion", summaries[i])>>
              ELSE <<>>)
             \o SummaryLoop(root, summaries, i + 1, category)

ParseAccordion(root, element, category) ==
    SummaryLoop(root,
                FindAll(root, element, {"summary", ".accordion-header", ".accordion-title"}),
                1, category)

RECURSIVE FeatureSiblings(_, _, _)
FeatureSiblings(root, sibling, description_parts) ==
    IF sibling = NoPath \/ NodeAt(root, sibling).tag \in {"h3", "h4"}
    THEN description_parts
    ELSE LET text == StaticExtractTextContent(root, sibling)
         IN  FeatureSiblings(root, FindNextSibling(root, sibling, {}),
                 IF NodeAt(root, sibling).tag \in {"p", "ul", "ol", "div"} /\ text # <<>>
                 THEN Append(description_parts, text)
                 ELSE description_parts)

ParseFeature(root, element, category) ==
    LET description_parts ==
            FeatureSiblings(root, FindNextSibling(root, element, {}), <<>>)
    IN  IF description_parts # <<>>
        THEN <<Feature(GetTextStrip(NodeAt(root, element)),
                       Join(description_parts, <<"\n", "\n">>),
                       category, "headings", element)>>
        ELSE <<>>

StaticVisit(root, acc, p) ==
    LET element == NodeAt(root, p)
    IN  IF element.tag \in {"details", "div"} /\ "accordion" \in element.cls
        THEN [acc EXCEPT !.feats = @ \o ParseAccordion(root, p, acc.category)]
        ELSE IF element.tag = "h3"
        THEN [acc EXCEPT !.category = GetTextStrip(element)]
        ELSE IF element.tag = "h4"
        THEN [acc EXCEPT !.feats = @ \o ParseFeature(root, p, acc.category)]
        ELSE acc

RECURSIVE StaticLoop(_, _, _, _)
StaticLoop(root, elements, i, acc) ==
    IF i > Len(elements) THEN acc
    ELSE StaticLoop(root, elements, i + 1, StaticVisit(root, acc, elements[i]))

StaticParseHtml(root) ==
    LET content_area == FindContentArea(root)
    IN  IF content_area = NoPath THEN <<>>
        ELSE StaticLoop(root, FindAll(root, content_area, {"h3", "h4", "div", "details"}),
                        1, [category |-> T_General, feats |-> <<>>]).feats

----------------------------------------------------------------------------
(* Translator (translate_with_openai.py).  A call of the chat completion   *)
(* API either returns a reply or raises; outcome.ok tells which, and       *)
(* outcome.text is the reply or the exception's message.                   *)

(* "[" and the five characters of the error label, ":" and a space *)
T_ErrorOpen == <<"[", "U+7FFB", "U+8A33", "U+30A8", "U+30E9", "U+30FC", ":", " ">>
T_Details == <<"<","d","e","t","a","i","l","s",">","\n">>
T_Summary == <<"<","s","u","m","m","a","r","y",">","V","i","e","w"," ","o","r","i","g","i","n","a","l"," ","E","n","g","l","i","s","h"," ","v","e","r","s","i","o","n","<","/","s","u","m","m","a","r","y",">","\n","\n">>
T_DetailsEnd == <<"<","/","d","e","t","a","i","l","s",">">>

(* mutant of TranslateText: a failed call returns the marker alone *)
TranslateTextMarkerOnly(text, outcome) ==
    IF outcome.ok THEN Strip(outcome.text)
    ELSE T_ErrorOpen \o outcome.text \o <<"]">>

TranslateText(text, outcome) ==
    IF outcome.ok THEN Strip(outcome.text)
    ELSE T_ErrorOpen \o outcome.text \o <<"]", "\n", "\n">> \o text

CreateBilingualContent(title, content, title_ja, content_ja, category) ==
    <<"#", "#", " ">> \o title_ja \o <<"\n", "\n">>
    \o content_ja \o <<"\n", "\n">>
    \o T_Details
    \o T_Summary
    \o <<"#", "#", "#", " ">> \o title \o <<"\n", "\n">>
    \o content \o <<"\n", "\n">>
    \o T_DetailsEnd

TranslateFeature(feature, titleOutcome, descriptionOutcome) ==
    LET title_ja == TranslateText(feature.title, titleOutcome)
        description_ja == TranslateText(feature.description, descriptionOutcome)
    IN  [category |-> feature.category,
         title |-> title_ja,
         title_en |-> feature.title,
         description |-> CreateBilingualContent(feature.title, feature.description,
                                                title_ja, description_ja,
                                                feature.category)]

----------------------------------------------------------------------------
(* ReleaseNotes.to_json: json.dumps(data, indent=2, ensure_ascii=False) of  *)
(* the version and of the category, title and description of each feature  *)

J_Version == <<"\"","v","e","r","s","i","o","n","\"",":"," ">>
J_Features == <<"\"","f","e","a","t","u","r","e","s","\"",":"," ">>
J_Category == <<"\"","c","a","t","e","g","o","r","y","\"",":"," ">>
J_Title == <<"\"","t","i","t","l","e","\"",":"," ">>
J_Description == <<"\"","d","e","s","c","r","i","p","t","i","o","n","\"",":"," ">>

JsonEscape(c) ==
    IF c = "\"" THEN <<"\\", "\"">>
    ELSE IF c = "\\" THEN <<"\\", "\\">>
    ELSE IF c = "\n" THEN <<"\\", "n">>
    ELSE <<c>>

(* the escapes of the characters s[lo..hi], one after the other *)
RECURSIVE JsonEscaped(_, _, _)
JsonEscaped(s, lo, hi) ==
    IF lo > hi THEN <<>>
    ELSE IF lo = hi THEN JsonEscape(s[lo])
    ELSE JsonEscaped(s, lo, (lo + hi) \div 2)
         \o JsonEscaped(s, ((lo + hi) \div 2) + 1, hi)

JsonString(s) == <<"\"">> \o JsonEscaped(s, 1, Len(s)) \o <<"\"">>

Indent(n) == [k \in 1..n |-> " "]

JsonFeature(f) ==
    Indent(4) \o <<"{", "\n">>
    \o Indent(6) \o J_Category \o JsonString(f.category) \o <<",", "\n">>
    \o Indent(6) \o J_Title \o JsonString(f.title) \o <<",", "\n">>
    \o Indent(6) \o J_Description \o JsonString(f.description) \o <<"\n">>
    \o Indent(4) \o <<"}">>

JsonFeatures(feats) ==
    IF feats = <<>> THEN <<"[", "]">>
    ELSE <<"[", "\n">>
         \o Join([k \in 1..Len(feats) |-> JsonFeature(feats[k])], <<",", "\n">>)
         \o <<"\n">> \o Indent(2) \o <<"]">>

ToJson(v, feats) ==
    <<"{", "\n">>
    \o Indent(2) \o J_Version \o JsonString(v) \o <<",", "\n">>
    \o Indent(2) \o J_Features \o JsonFeatures(feats) \o <<"\n">>
    \o <<"}">>

(* BeautifulSoup(html_content, 'html.parser'): the documents of the model   *)
(* are the trees the parser builds, and each call builds a tree of its own  *)
(* mutant of BeautifulSoup: a later call works on the tree of the call     *)
(* before it                                                                *)
BeautifulSoupShared(html_content) == IF run = 1 THEN html_content ELSE soup

BeautifulSoup(html_content) == html_content

----------------------------------------------------------------------------
(* Translator: main.  The document read by json.load is a record; what     *)
(* main prints is json.dumps(data, ensure_ascii=False, indent=2)           *)

T_True == <<"t","r","u","e">>
J_TitleEn == <<"\"","t","i","t","l","e","_","e","n","\"",":"," ">>
J_Translated == <<"\"","t","r","a","n","s","l","a","t","e","d","\"",":"," ">>

(* mutant of ApiKeyMissing: the key is not looked at *)
ApiKeyMissingIgnored(key) == FALSE

(* "if not api_key" *)
ApiKeyMissing(key) == key = <<>>

(* os.environ.get('SKIP_TRANSLATION', '').lower() == 'true' *)
SkipRequested(value) == Lower(value) = T_True

DumpFeature(f) ==
    IF "title_en" \in DOMAIN f
    THEN Indent(4) \o <<"{", "\n">>
         \o Indent(6) \o J_Category \o JsonString(f.category) \o <<",", "\n">>
         \o Indent(6) \o J_Title \o JsonString(f.title) \o <<",", "\n">>
         \o Indent(6) \o J_TitleEn \o JsonString(f.title_en) \o <<",", "\n">>
         \o Indent(6) \o J_Description \o JsonString(f.description) \o <<"\n">>
         \o Indent(4) \o <<"}">>
    ELSE JsonFeature(f)

DumpFeatures(feats) ==
    IF feats = <<>> THEN <<"[", "]">>
    ELSE <<"[", "\n">>
         \o Join([k \in 1..Len(feats) |-> DumpFeature(feats[k])], <<",", "\n">>)
         \o <<"\n">> \o Indent(2) \o <<"]">>

DumpData(d) ==
    <<"{", "\n">>
    \o Indent(2) \o J_Version \o JsonString(d.version) \o <<",", "\n">>
    \o Indent(2) \o J_Features \o DumpFeatures(d.features)
    \o (IF "translated" \in DOMAIN d
        THEN <<",", "\n">> \o Indent(2) \o J_Translated \o T_True
        ELSE <<>>)
    \o <<"\n", "}">>

----------------------------------------------------------------------------
(* Inputs: texts, blocks and documents *)

S_CloudTAP == <<"C","l","o","u","d"," ","T","A","P">>
S_Security == <<"E","n","h","a","n","c","e","d"," ","S","e","c","u","r","i","t","y">>
S_Roles == <<"S","u","p","p","o","r","t","s"," ","I","A","M"," ","R","o","l","e","s",".">>
S_Steering == <<"S","t","e","e","r","i","n","g">>
S_Body == <<"A","d","d","s"," ","a","u","d","i","t"," ","l","o","g","s",".">>
S_Flow == <<"S","h","o","w","s"," ","t","h","e"," ","n","e","w"," ","f","l","o","w",".">>
S_ImgSrc == <<"h","t","t","p","s",":","/","/","c","d","n",".","e","x","a","m","p","l","e",".","c","o","m","/","a",".","p","n","g">>
S_Timeout == <<"t","i","m","e","o","u","t">>
S_Reply == <<" ", "U+5F37", "U+5316", "\n">>
U_Rel129 == <<"d","o","c","s","/","r","e","l","e","a","s","e","-","1","2","9","-","0","-","0">>
U_Rel130 == <<"d","o","c","s","/","r","e","l","e","a","s","e","-","1","3","0","-","0","-","0">>
U_Dot == <<"d","o","c","s","/","v","1","2",".","4",".","1","/","n","o","t","e","s">>
U_Plain == <<"d","o","c","s","/","l","a","t","e","s","t">>
U_Mixed == <<"d","o","c","s","/","r","-","7",".","1","0","-","2">>
P_Rel130 == <<"R","e","l","e","a","s","e"," ","1","3","0",".","0",".","0">>
P_Notes == <<"R","e","l","e","a","s","e"," ","N","o","t","e","s">>
P_V131 == <<"N","o","t","e","s"," ","1","3","1","-","2","-","0">>
P_H132 == <<"W","h","a","t"," ","i","s"," ","n","e","w"," ","i","n"," ","1","3","2",".","1",".","0">>

Fill(n) == [k \in 1..n |-> "x"]

B_H3 == El("h3", <<Txt(S_CloudTAP)>>)
B_H4 == El("h4", <<Txt(S_Security)>>)
B_H5 == El("h5", <<Txt(S_Steering)>>)
B_H4Empty == El("h4", <<Txt(<<" ">>)>>)
B_P == El("p", <<Txt(S_Roles)>>)
B_UL == El("ul", <<El("li", <<El("strong", <<Txt(S_Security)>>),
                              Txt(<<" ">> \o S_Body)>>)>>)
B_Card == ElC("div", {"card"}, <<ElC("span", {"card-title"}, <<>>),
                                 ElC("p", {"card-body"}, <<Txt(S_Body)>>)>>)
B_Accordion == ElC("details", {"accordion"},
                   <<El("summary", <<Txt(S_Steering)>>), El("div", <<Txt(S_Roles)>>)>>)
B_Long == El("p", <<Txt(Fill(DescriptionCap))>>)
B_Half == El("p", <<Txt(Fill(DescriptionCap \div 2))>>)
B_HalfLess == El("p", <<Txt(Fill((DescriptionCap \div 2) - 1))>>)
B_Figure == El("p", <<Img(S_ImgSrc, <<>>), Txt(S_Flow)>>)

Palette == {B_H3, B_H4, B_H5, B_H4Empty, B_P, B_UL, B_Card, B_Accordion}
CapPalette == {B_H4, B_P, B_Long, B_Half, B_HalfLess, B_Figure}

BlockSeqs(palette, n) == UNION {[1..k -> palette] : k \in 0..n}

Page(head, body) ==
    El("[document]", <<El("html", <<El("head", head), El("body", body)>>)>>)

TitleOf(text) == <<El("title", <<Txt(text)>>)>>

BodyPath == <<1, 2>>

Documents == {Page(TitleOf(P_Notes), b) : b \in BlockSeqs(Palette, MaxBlocks)}

CapDocuments == {Page(TitleOf(P_Notes), <<B_H4>> \o b) : b \in BlockSeqs(CapPalette, MaxBlocks)}

S_Known == <<"K","n","o","w","n"," ","i","s","s","u","e","s"," ","o","f"," ","t","h","e"," ","r","e","l","e","a","s","e">>
B_H3Other == El("h3", <<Txt(S_Steering)>>)
B_H2 == El("h2", <<Txt(S_Known)>>)
HeadingPalette == {B_H3, B_H3Other, B_H4, B_P, B_H2}
HeadingDocuments ==
    {Page(TitleOf(P_Notes), b) : b \in BlockSeqs(HeadingPalette, MaxBlocks)}

TwicePalette == {B_H4, B_P, B_UL, B_Card}
TwiceDocuments == {Page(TitleOf(P_Rel130), b) : b \in BlockSeqs(TwicePalette, MaxBlocks)}

V_Relative == <<"i","m","g","/","a",".","p","n","g">>
V_Rooted == <<"/","i","m","g","/","a",".","p","n","g">>
V_Https == <<"h","t","t","p","s",":","/","/","o","t","h","e","r",".","c","o","m","/","y",".","p","n","g">>
V_Http == <<"h","t","t","p",":","/","/","o","t","h","e","r",".","c","o","m","/","y",".","p","n","g">>
V_Mailto == <<"m","a","i","l","t","o",":","a","@","b",".","c","o">>
V_Fragment == <<"#","t","o","p">>
V_Logo == <<"/","i","m","g","/","l","o","g","o",".","p","n","g">>
V_UpperLogo == <<"/","i","m","g","/","L","o","g","o",".","p","n","g">>
V_Icon == <<"h","t","t","p","s",":","/","/","o","t","h","e","r",".","c","o","m","/","i","c","o","n","s","/","a",".","p","n","g">>
V_DataUri == <<"d","a","t","a",":","i","m","a","g","e","/","p","n","g",";","b","a","s","e","6","4",",","A","A">>
S_Guide == <<"G","u","i","d","e">>
S_Diagram == <<"D","i","a","g","r","a","m">>
S_Outer == <<"O","u","t","e","r"," ","i","t","e","m">>
S_Inner == <<"I","n","n","e","r"," ","i","t","e","m">>
S_Plain == <<"P","l","a","i","n"," ","i","t","e","m">>
S_Read == <<"R","e","a","d"," ","t","h","i","s",".">>
S_Script == <<"v","a","r"," ","a"," ","="," ","1",";">>
S_Style == <<"p"," ","{"," ","c","o","l","o","r",":"," ","r","e","d"," ","}">>
S_NoScript == <<"E","n","a","b","l","e"," ","J","a","v","a","S","c","r","i","p","t">>

(* values of href and src *)
UrlValues == {V_Relative, V_Rooted, V_Https, V_Http, V_Mailto, V_Fragment}
SrcValues == UrlValues \cup {<<>>, V_Logo, V_UpperLogo, V_Icon, V_DataUri}

LinkInputs == {El("p", <<Link(h, <<Txt(S_Guide)>>)>>) : h \in UrlValues \cup {<<>>}}
ImageInputs == {El("p", <<Img(src, alt)>>) : src \in SrcValues, alt \in {<<>>, S_Diagram}}

LI_Plain == El("li", <<Txt(S_Plain)>>)
LI_Bold == El("li", <<El("strong", <<Txt(S_Security)>>), Txt(S_Body)>>)
LI_Nested == El("li", <<Txt(S_Outer), El("ul", <<El("li", <<Txt(S_Inner)>>)>>)>>)
ListInputs ==
    {El(t, items) : t \in {"ul", "ol"},
                    items \in BlockSeqs({LI_Plain, LI_Bold, LI_Nested}, MaxItems)}

ExcludedTags == {"script", "style", "noscript"}
N_Script == El("script", <<Txt(S_Script)>>)
N_Style == El("style", <<Txt(S_Style)>>)
N_NoScript == El("noscript", <<Txt(S_NoScript)>>)
ScriptInputs ==
    {El("div", kids) :
        kids \in BlockSeqs({Txt(S_Read), N_Script, N_Style, N_NoScript,
                            El("p", <<Txt(S_Body), N_Script>>)}, MaxItems)}

RenderInputs == LinkInputs \cup ImageInputs \cup ListInputs \cup ScriptInputs

VersionUrls == {U_Rel129, U_Rel130, U_Dot, U_Plain, U_Mixed}
VersionHeads == {<<>>, TitleOf(P_Rel130), TitleOf(P_Notes), TitleOf(P_V131)}
VersionTops == {<<>>, <<El("h1", <<Txt(P_H132)>>)>>}
VersionDocuments == {Page(h, t \o <<B_H4, B_P>>) : h \in VersionHeads, t \in VersionTops}

InputFeatures ==
    {[category |-> S_CloudTAP, title |-> S_Security, description |-> S_Roles],
     [category |-> T_General, title |-> S_Steering, description |-> S_Body],
     [category |-> T_General, title |-> S_Security, description |-> <<>>]}

Outcomes == {[ok |-> TRUE, text |-> S_Reply], [ok |-> TRUE, text |-> S_Security],
             [ok |-> FALSE, text |-> S_Timeout]}

----------------------------------------------------------------------------
(* Initial states *)

ParserIdle ==
    /\ variant = "none" /\ url = <<>> /\ soup = El("[document]", <<>>)
    /\ pc = "off" /\ version = <<>> /\ candidates = <<>> /\ features = <<>>
    /\ scans = <<>>
    /\ html = El("[document]", <<>>) /\ run = 0 /\ first = <<>>

TranslatorIdle ==
    tin = <<>> /\ tpc = "off" /\ ti = 0 /\ tcalls = <<>> /\ tout = <<>>

RendererIdle ==
    rin = Txt(<<>>) /\ rpc = "off" /\ rout = <<>>

MainIdle ==
    /\ api_key = <<>> /\ skip_translation = <<>> /\ input = <<>>
    /\ mpc = "off" /\ data = <<>> /\ stdout = <<>> /\ status = -1

(* a parser constructed for a URL, and the page it is about to parse *)
ParserInit(urls, documents) ==
    /\ variant \in {"playwright", "static"}
    /\ url \in urls
    /\ html \in documents
    /\ soup = El("[document]", <<>>)
    /\ pc = "call"
    /\ version = <<>> /\ candidates = <<>> /\ features = <<>> /\ scans = <<>>
    /\ run = 1 /\ first = <<>>
    /\ TranslatorIdle /\ RendererIdle /\ MainIdle

Init == ParserInit({U_Rel129}, Documents)
InitVersion == ParserInit(VersionUrls, VersionDocuments)
InitCap == ParserInit({U_Rel129}, CapDocuments)
InitHeadings == ParserInit({U_Rel129}, HeadingDocuments)
InitTwice == ParserInit({U_Rel129, U_Plain}, TwiceDocuments)

S_Key == <<"s","k","-","t","e","s","t">>
S_False == <<"f","a","l","s","e">>
S_TrueUpper == <<"T","R","U","E">>
InputDocuments ==
    {[version |-> T_V129, features |-> f] : f \in BlockSeqs(InputFeatures, MaxFeatures)}

InitMain ==
    /\ ParserIdle /\ TranslatorIdle /\ RendererIdle
    /\ api_key \in {<<>>, S_Key}
    /\ skip_translation \in {<<>>, T_True, S_TrueUpper, S_False}
    /\ input \in InputDocuments
    /\ mpc = "start" /\ data = <<>> /\ stdout = <<>> /\ status = -1

InitRender ==
    /\ ParserIdle /\ TranslatorIdle /\ MainIdle
    /\ rin \in RenderInputs
    /\ rpc = "start"
    /\ rout = [markdown |-> <<>>, static |-> <<>>]

InitTranslate ==
    /\ ParserIdle /\ RendererIdle /\ MainIdle
    /\ tin \in BlockSeqs(InputFeatures, MaxFeatures)
    /\ tpc = "start" /\ ti = 0 /\ tcalls = <<>> /\ tout = <<>>

----------------------------------------------------------------------------
(* Both parsers: the first statement of parse_html *)

ParseHtmlBegin ==
    /\ pc = "call"
    /\ soup' = BeautifulSoup(html)
    /\ pc' = "start"
    /\ UNCHANGED <<variant, url, version, candidates, features, scans>>
    /\ UNCHANGED <<html, run, first>>
    /\ UNCHANGED <<translatorVars, rendererVars, mainVars>>

(* Playwright parser: the steps of parse_html *)

PwExtractVersion ==
    /\ variant = "playwright" /\ pc = "start"
    /\ version' = ExtractVersion(url, soup)
    /\ pc' = "headings"
    /\ UNCHANGED <<variant, url, soup, candidates, features, scans>>
    /\ UNCHANGED <<html, run, first>>
    /\ UNCHANGED <<translatorVars, rendererVars, mainVars>>

PwParseByHeadings ==
    /\ variant = "playwright" /\ pc = "headings"
    /\ candidates' = candidates \o ParseByHeadings(soup)
    /\ scans' = HeadingScan(soup).scans
    /\ pc' = "classes"
    /\ UNCHANGED <<variant, url, soup, version, features>>
    /\ UNCHANGED <<html, run, first>>
    /\ UNCHANGED <<translatorVars, rendererVars, mainVars>>

PwParseByClasses ==
    /\ variant = "playwright" /\ pc = "classes"
    /\ candidates' = candidates \o ParseByClasses(soup)
    /\ pc' = "lists"
    /\ UNCHANGED <<variant, url, soup, version, features, scans>>
    /\ UNCHANGED <<html, run, first>>
    /\ UNCHANGED <<translatorVars, rendererVars, mainVars>>

PwParseByLists ==
    /\ variant = "playwright" /\ pc = "lists"
    /\ candidates' = candidates \o ParseByLists(soup).feats
    /\ soup' = ParseByLists(soup).soup
    /\ pc' = "dedup"
    /\ UNCHANGED <<variant, url, version, features, scans>>
    /\ UNCHANGED <<html, run, first>>
    /\ UNCHANGED <<translatorVars, rendererVars, mainVars>>

PwRemoveDuplicates ==
    /\ variant = "playwright" /\ pc = "dedup"
    /\ features' = RemoveDuplicates(candidates)
    /\ pc' = "done"
    /\ UNCHANGED <<variant, url, soup, version, candidates, scans>>
    /\ UNCHANGED <<html, run, first>>
    /\ UNCHANGED <<translatorVars, rendererVars, mainVars>>

(* Static parser: the steps of parse_html *)

StExtractVersion ==
    /\ variant = "static" /\ pc = "start"
    /\ version' = StaticExtractVersion(url, soup)
    /\ pc' = "scan"
    /\ UNCHANGED <<variant, url, soup, candidates, features, scans>>
    /\ UNCHANGED <<html, run, first>>
    /\ UNCHANGED <<translatorVars, rendererVars, mainVars>>

StParseHtml ==
    /\ variant = "static" /\ pc = "scan"
    /\ features' = StaticParseHtml(soup)
    /\ pc' = "done"
    /\ UNCHANGED <<variant, url, soup, version, candidates, scans>>
    /\ UNCHANGED <<html, run, first>>
    /\ UNCHANGED <<translatorVars, rendererVars, mainVars>>

(* Both parsers: parse_html is called a second time on the same page; the *)
(* JSON of the first result is kept for comparison                        *)

ParseAgain ==
    /\ pc = "done" /\ run = 1
    /\ first' = ToJson(version, features)
    /\ run' = 2
    /\ pc' = "call"
    /\ version' = <<>> /\ candidates' = <<>> /\ features' = <<>> /\ scans' = <<>>
    /\ UNCHANGED <<variant, url, soup, html>>
    /\ UNCHANGED <<translatorVars, rendererVars, mainVars>>

(* Translator: translate_features *)

TranslateStart ==
    /\ tpc = "start"
    /\ tpc' = "loop" /\ ti' = 1
    /\ UNCHANGED <<tin, tcalls, tout>>
    /\ UNCHANGED <<parserVars, rendererVars, mainVars>>

TranslateNext ==
    /\ tpc = "loop" /\ ti <= Len(tin)
    /\ \E titleOutcome \in Outcomes, descriptionOutcome \in Outcomes :
          /\ tout' = Append(tout, TranslateFeature(tin[ti], titleOutcome, descriptionOutcome))
          /\ tcalls' = Append(tcalls, [title |-> titleOutcome,
                                       description |-> descriptionOutcome])
    /\ ti' = ti + 1
    /\ UNCHANGED <<tin, tpc>>
    /\ UNCHANGED <<parserVars, rendererVars, mainVars>>

TranslateReturn ==
    /\ tpc = "loop" /\ ti > Len(tin)
    /\ tpc' = "done"
    /\ UNCHANGED <<tin, ti, tcalls, tout>>
    /\ UNCHANGED <<parserVars, rendererVars, mainVars>>

(* Translator: main *)

MainCheckKey ==
    /\ mpc = "start"
    /\ IF ApiKeyMissing(api_key)
       THEN status' = 1 /\ mpc' = "exit"
       ELSE status' = status /\ mpc' = "read"
    /\ UNCHANGED <<api_key, skip_translation, input, data, stdout>>
    /\ UNCHANGED <<parserVars, translatorVars, rendererVars>>

MainReadInput ==
    /\ mpc = "read"
    /\ data' = input
    /\ mpc' = "loaded"
    /\ UNCHANGED <<api_key, skip_translation, input, stdout, status>>
    /\ UNCHANGED <<parserVars, translatorVars, rendererVars>>

MainSkip ==
    /\ mpc = "loaded" /\ SkipRequested(skip_translation)
    /\ stdout' = stdout \o DumpData(data) \o <<"\n">>
    /\ status' = 0
    /\ mpc' = "exit"
    /\ UNCHANGED <<api_key, skip_translation, input, data>>
    /\ UNCHANGED <<parserVars, translatorVars, rendererVars>>

MainTranslate ==
    /\ mpc = "loaded" /\ ~SkipRequested(skip_translation)
    /\ tin' = data.features
    /\ tpc' = "start" /\ ti' = 0 /\ tcalls' = <<>> /\ tout' = <<>>
    /\ mpc' = "translating"
    /\ UNCHANGED <<api_key, skip_translation, input, data, stdout, status>>
    /\ UNCHANGED <<parserVars, rendererVars>>

MainPrint ==
    /\ mpc = "translating" /\ tpc = "done"
    /\ data' = [version |-> data.version, features |-> tout, translated |-> TRUE]
    /\ stdout' = stdout \o DumpData(data') \o <<"\n">>
    /\ status' = 0
    /\ mpc' = "exit"
    /\ UNCHANGED <<api_key, skip_translation, input>>
    /\ UNCHANGED <<parserVars, translatorVars, rendererVars>>

(* Renderers: extract_text_content of the Playwright parser, then that of  *)
(* the static parser, on the element rin                                   *)

RenderPlaywright ==
    /\ rpc = "start"
    /\ rout' = [rout EXCEPT !.markdown = ExtractTextContent(rin, <<>>)]
    /\ rpc' = "static"
    /\ UNCHANGED rin
    /\ UNCHANGED <<parserVars, translatorVars, mainVars>>

RenderStatic ==
    /\ rpc = "static"
    /\ rout' = [rout EXCEPT !.static = StaticExtractTextContent(rin, <<>>)]
    /\ rpc' = "done"
    /\ UNCHANGED rin
    /\ UNCHANGED <<parserVars, translatorVars, mainVars>>

----------------------------------------------------------------------------
(* Specifications *)

Next ==
    \/ ParseHtmlBegin
    \/ PwExtractVersion
    \/ PwParseByHeadings
    \/ PwParseByClasses
    \/ PwParseByLists
    \/ PwRemoveDuplicates
    \/ StExtractVersion
    \/ StParseHtml

NextTwice ==
    \/ Next
    \/ ParseAgain

NextMain ==
    \/ MainCheckKey
    \/ MainReadInput
    \/ MainSkip
    \/ MainTranslate
    \/ TranslateStart
    \/ TranslateNext
    \/ TranslateReturn
    \/ MainPrint

NextRender ==
    \/ RenderPlaywright
    \/ RenderStatic

NextTranslate ==
    \/ TranslateStart
    \/ TranslateNext
    \/ TranslateReturn

Spec == Init /\ [][Next]_vars
SpecVersion == InitVersion /\ [][Next]_vars
SpecCap == InitCap /\ [][Next]_vars
SpecHeadings == InitHeadings /\ [][Next]_vars
SpecTwice == InitTwice /\ [][NextTwice]_vars
SpecMain == InitMain /\ [][NextMain]_vars
SpecRender == InitRender /\ [][NextRender]_vars
SpecTranslate == InitTranslate /\ [][NextTranslate]_vars

TypeOK ==
    /\ pc \in {"off", "call", "start", "headings", "classes", "lists", "dedup", "scan", "done"}
    /\ tpc \in {"off", "start", "loop", "done"}

----------------------------------------------------------------------------
(* Properties *)

Body == NodeAt(soup, BodyPath).kids
Finished == pc = "done"
KeyOf(f) == <<f.title, f.category>>
SumLen(parts, from) ==
    LET RECURSIVE Sum(_)
        Sum(k) == IF k > Len(parts) THEN 0 ELSE Len(parts[k]) + Sum(k + 1)
    IN  Sum(from)
(* total length of the parts that the last visited sibling contributed *)
LastBlockLen(scan) == SumLen(scan.parts, Len(scan.parts) - scan.lastN + 1)
EmittedAt(p) ==
    \E k \in 1..Len(candidates) :
        candidates[k].strategy = "headings" /\ candidates[k].pos = p
CategoryAt(p) ==
    LET k == CHOOSE m \in 1..Len(candidates) :
                 candidates[m].strategy = "headings" /\ candidates[m].pos = p
    IN  candidates[k].category
ScannedEmpty(p) ==
    \E k \in 1..Len(scans) : scans[k].heading = p /\ scans[k].result = <<>>
HeadingsScanned == variant = "playwright" /\ pc \in {"classes", "lists", "dedup", "done"}

(* C1: in the ReleaseNotes returned by parse_html no two distinct positions *)
(* of the features sequence hold the same (title, category) pair.           *)
C1_DedupInvariant ==
    Finished =>
        \A i, j \in 1..Len(features) :
            i # j => KeyOf(features[i]) # KeyOf(features[j])

(* C2: for a body that is an h3, then an h4, then one paragraph of more    *)
(* than 10 characters, parse_html yields exactly one feature: title the h4 *)
(* text, description the paragraph text, category the h3 text.             *)
IsScenario ==
    /\ Len(Body) = 3
    /\ Body[1].tag = "h3" /\ Body[2].tag = "h4" /\ Body[3].tag = "p"
    /\ Len(GetTextStrip(Body[1])) >= MinHeadingLen
    /\ Len(GetTextStrip(Body[2])) >= MinHeadingLen
    /\ Len(GetTextStrip(Body[3])) > MinTextLen
C2_EndToEnd ==
    (Finished /\ IsScenario) =>
        /\ Len(features) = 1
        /\ Plain(features[1]) = [title |-> GetTextStrip(Body[2]),
                                 description |-> GetTextStrip(Body[3]),
                                 category |-> GetTextStrip(Body[1])]

(* C3: in the heading scan, an h4/h5/h6 heading whose description is empty *)
(* emits no feature and its text becomes the current category: the feature *)
(* emitted from the heading that follows it carries that text as category. *)
IsOrphan(p) ==
    /\ NodeAt(soup, p).tag \in {"h4", "h5", "h6"}
    /\ ScannedEmpty(p)
C3_EmptyDescriptionReclassified ==
    HeadingsScanned =>
        LET hs == FindAll(soup, <<>>, HeadingTags)
        IN  \A k \in 1..Len(hs) :
                IsOrphan(hs[k]) =>
                    /\ ~EmittedAt(hs[k])
                    /\ (k < Len(hs) /\ EmittedAt(hs[k + 1]))
                           => CategoryAt(hs[k + 1]) = GetTextStrip(NodeAt(soup, hs[k]))

(* C4, as stated: every description returned by get_following_description  *)
(* is at most the cap plus the length of the last accumulated block.        *)
C4_CapPlusLastBlock ==
    \A k \in 1..Len(scans) :
        Len(scans[k].result) <= DescriptionCap + LastBlockLen(scans[k])

(* C4, amended: every description returned by get_following_description is *)
(* at most the cap plus the length of what the last visited sibling         *)
(* contributed plus two characters for each separator between the parts     *)
(* (the cap is tested on the parts joined by one newline, the result joins  *)
(* them by two).                                                            *)
C4_CapPlusLastBlockAndSeparators ==
    \A k \in 1..Len(scans) :
        /\ scans[k].parts = <<>> => scans[k].result = <<>>
        /\ scans[k].parts # <<>> =>
              Len(scans[k].result) <= DescriptionCap + LastBlockLen(scans[k])
                                      + 2 * (Len(scans[k].parts) - 1)

(* C4 witness: a scan that crossed the cap and returned more than the cap  *)
(* plus its last block.                                                     *)
C4_Witness ==
    \E k \in 1..Len(scans) :
        /\ CapExceeded(scans[k].parts)
        /\ Len(scans[k].parts) >= 2
        /\ Len(scans[k].result) > DescriptionCap + LastBlockLen(scans[k])

(* C5: the features of the result are the merged candidates without every  *)
(* candidate whose title equals that of an earlier candidate; the first     *)
(* occurrence is retained and the order of the retained ones is unchanged.  *)
FirstOccurrences ==
    {i \in 1..Len(candidates) :
        \A j \in 1..(i - 1) : candidates[j].title # candidates[i].title}
NthFirstOccurrence(k) ==
    CHOOSE i \in FirstOccurrences :
        Cardinality({j \in FirstOccurrences : j <= i}) = k
C5_StableFirstSeenDedup ==
    (Finished /\ variant = "playwright") =>
        /\ Len(features) = Cardinality(FirstOccurrences)
        /\ \A k \in 1..Len(features) : features[k] = candidates[NthFirstOccurrence(k)]

(* C5 witness: a finished parse in which a later duplicate was dropped     *)
(* although its category differs from that of the retained candidate.       *)
C5_Witness ==
    /\ Finished /\ variant = "playwright"
    /\ \E i, j \in 1..Len(candidates) :
          /\ i < j
          /\ candidates[i].title = candidates[j].title
          /\ candidates[i].category # candidates[j].category
    /\ Len(features) >= 1
    /\ Len(features) < Len(candidates)

(* C6, as stated: of any two features in the output, the one whose source  *)
(* element occurs earlier in the document appears earlier, whichever        *)
(* strategies produced them.                                                *)
C6_DocumentOrder ==
    Finished =>
        \A i, j \in 1..Len(features) :
            Before(features[i].pos, features[j].pos) => i < j

(* C6, amended: of any two features in the output that the heading scan    *)
(* produced, the one whose heading occurs earlier in the document appears   *)
(* earlier; features of different strategies appear in the order of the     *)
(* strategies (heading scan, class patterns, list items).                   *)
StrategyRank(f) ==
    CASE f.strategy = "headings" -> 1
      [] f.strategy = "accordion" -> 1
      [] f.strategy = "classes" -> 2
      [] f.strategy = "lists" -> 3
C6_HeadingOrderThenStrategyOrder ==
    Finished =>
        \A i, j \in 1..Len(features) :
            /\ (/\ features[i].strategy = "headings"
                /\ features[j].strategy = "headings"
                /\ Before(features[i].pos, features[j].pos)) => i < j
            /\ (variant = "playwright" /\ i < j)
                   => StrategyRank(features[i]) <= StrategyRank(features[j])

(* C6 witness: an output with two heading features in document order and a *)
(* list feature after them whose list precedes the second heading.          *)
C6_Witness ==
    /\ Finished
    /\ \E i, j, k \in 1..Len(features) :
          /\ i < j /\ j < k
          /\ features[i].strategy = "headings"
          /\ features[j].strategy = "headings"
          /\ Before(features[i].pos, features[j].pos)
          /\ features[k].strategy = "lists"
          /\ Before(features[k].pos, features[j].pos)


(* C7: whatever calls succeed or fail, translate_features returns one      *)
(* record per input feature, in input order, record i keeping feature i's   *)
(* category and carrying its original title as title_en; the result of a    *)
(* failed call is the error marker followed by the original text, and the   *)
(* features after a failure are processed all the same.                     *)
ErrorResult(message, text) == T_ErrorOpen \o message \o <<"]", "\n", "\n">> \o text
C7_FailedCallsNeverAbortTheBatch ==
    /\ tpc \in {"loop", "done"} => Len(tout) = Len(tcalls)
    /\ tpc = "done" => Len(tout) = Len(tin)
    /\ \A i \in 1..Len(tout) :
          /\ tout[i].category = tin[i].category
          /\ tout[i].title_en = tin[i].title
          /\ ~tcalls[i].title.ok =>
                tout[i].title = ErrorResult(tcalls[i].title.text, tin[i].title)
          /\ ~tcalls[i].description.ok =>
                Contains(tout[i].description,
                         <<"\n", "\n">>
                         \o ErrorResult(tcalls[i].description.text, tin[i].description)
                         \o <<"\n", "\n">> \o T_Details)

(* C7 witness: a finished batch of two features in which both calls for the *)
(* first feature failed and the calls for the second succeeded.              *)
C7_Witness ==
    /\ tpc = "done" /\ Len(tin) = 2 /\ Len(tout) = 2
    /\ ~tcalls[1].title.ok /\ ~tcalls[1].description.ok
    /\ tcalls[2].title.ok /\ tcalls[2].description.ok
    /\ tin[1].description # <<>>

(* C8: when the URL contains a substring digits-separator-digits-separator- *)
(* digits, extract_version returns that substring with hyphens replaced by  *)
(* dots, for release-129-0-0 and for any other version number alike.        *)
VersionExtracted == pc \notin {"off", "call", "start"}
C8_VersionFromUrl ==
    (VersionExtracted /\ VersionSearch(url) # <<>>) =>
        version = ReplaceChar(VersionSearch(url), "-", ".")

(* C9: when the URL has no version-like substring, extract_version returns  *)
(* the version matched in the page title; when the title has none, the      *)
(* version matched in the first h1; "Unknown" only when none of the three   *)
(* matches.                                                                 *)
TextOfFirst(tag) ==
    IF Find(soup, <<>>, {tag}) = NoPath THEN <<>>
    ELSE GetText(NodeAt(soup, Find(soup, <<>>, {tag})))
C9_VersionFallbacks ==
    (VersionExtracted /\ VersionSearch(url) = <<>>) =>
        version = IF VersionSearch(TextOfFirst("title")) # <<>>
                  THEN ReplaceChar(VersionSearch(TextOfFirst("title")), "-", ".")
                  ELSE IF VersionSearch(TextOfFirst("h1")) # <<>>
                  THEN ReplaceChar(VersionSearch(TextOfFirst("h1")), "-", ".")
                  ELSE T_Unknown

(* C10: every feature in the output of parse_html has a non-empty title,    *)
(* whichever strategy produced it.                                          *)
C10_TitleNonEmpty ==
    Finished => \A i \in 1..Len(features) : features[i].title # <<>>

Rendered == rpc = "done"
OnlyChild == rin.kids[1]
IsLinkInput == rin.tag = "p" /\ Len(rin.kids) = 1 /\ OnlyChild.tag = "a"
IsImageInput == rin.tag = "p" /\ Len(rin.kids) = 1 /\ OnlyChild.tag = "img"
IsListInput == rin.tag \in {"ul", "ol"}

(* C12: URL resolution is one function for link href and image src: a      *)
(* value starting with "/" becomes origin + value; a value that starts     *)
(* with none of http://, https://, mailto: and # becomes origin + "/" +    *)
(* value; every other value is emitted unchanged.                          *)
Resolved(value) ==
    IF StartsWith(value, <<"/">>) THEN T_Base \o value
    ELSE IF \E scheme \in {T_HttpP, T_HttpS, T_Mailto, <<"#">>} : StartsWith(value, scheme)
    THEN value
    ELSE T_Base \o <<"/">> \o value
C12_OneResolutionRule ==
    Rendered =>
        /\ (IsLinkInput /\ OnlyChild.href # <<>>) =>
               rout.markdown = <<"[">> \o GetTextStrip(OnlyChild) \o <<"]", "(">>
                               \o Resolved(OnlyChild.href) \o <<")">>
        /\ (IsImageInput /\ rout.markdown # <<>>) =>
               \E alt \in {T_Image, OnlyChild.alt} :
                   rout.markdown = <<"!", "[">> \o alt \o <<"]", "(">>
                                   \o Resolved(OnlyChild.src) \o <<")">>

(* C13, as stated: an img renders to nothing when its src is empty,        *)
(* contains "logo" or "icon", or is a data: URI; in every other case it    *)
(* renders to exactly ![alt](resolved-src), alt being "Image" when the alt *)
(* attribute is absent or empty.                                           *)
ImageMarkdown(img) ==
    <<"!", "[">> \o (IF img.alt = <<>> THEN T_Image ELSE img.alt)
    \o <<"]", "(">> \o ResolveSrc(img.src) \o <<")">>
ItemPrefix(k) == IF rin.tag = "ol" THEN Str(k) \o <<".", " ">> ELSE <<"-", " ">>
C16_OneLinePerDirectItem ==
    (Rendered /\ IsListInput) =>
        /\ rout.markdown =
              Join([k \in 1..Len(rin.kids) |->
                       ItemPrefix(k) \o ConvertElementToMarkdown(rin.kids[k])],
                   <<"\n">>)
        /\ rout.static =
              Join([k \in 1..Len(rin.kids) |->
                       ItemPrefix(k) \o GetTextStrip(rin.kids[k])],
                   <<"\n">>)

(* C17: the markdown renderer produces no output for script, style and     *)
(* noscript nodes: a subtree renders to what the same subtree renders to   *)
(* once those nodes are removed.                                           *)
RECURSIVE WithoutExcluded(_)
RECURSIVE KeptKids(_, _)
KeptKids(kids, i) ==
    IF i > Len(kids) THEN <<>>
    ELSE (IF kids[i].tag \in ExcludedTags THEN <<>> ELSE <<WithoutExcluded(kids[i])>>)
         \o KeptKids(kids, i + 1)
WithoutExcluded(n) == [n EXCEPT !.kids = KeptKids(n.kids, 1)]
C17_ScriptsExcluded ==
    (Rendered /\ ~IsListInput) =>
        rout.markdown = ConvertElementToMarkdown(WithoutExcluded(rin))

HeadingCandidates == {k \in 1..Len(candidates) : candidates[k].strategy = "headings"}
StaticHeadingFeatures ==
    IF variant = "static" /\ Finished
    THEN {k \in 1..Len(features) : features[k].strategy = "headings"}
    ELSE {}

(* C14, as stated: the heading scan emits a feature for a heading only     *)
(* when the description extracted for it is non-empty; no sequence of      *)
(* headings makes it emit a feature with an empty description.             *)
C14_NoEmptyDescription ==
    /\ \A k \in HeadingCandidates : candidates[k].description # <<>>
    /\ \A k \in StaticHeadingFeatures : features[k].description # <<>>

(* C14, amended: the heading scan emits a feature with an empty            *)
(* description only for an h3 whose nearest preceding sibling heading is   *)
(* an h3 of different content, the one recorded as category; every other   *)
(* heading is emitted only with a non-empty description.                   *)
PrecedingHeading(p) == FindPreviousSibling(soup, p, HeadingTags)
C14_EmptyOnlyAfterCategoryH3 ==
    /\ \A k \in HeadingCandidates :
          candidates[k].description = <<>> =>
              /\ NodeAt(soup, candidates[k].pos).tag = "h3"
              /\ PrecedingHeading(candidates[k].pos) # NoPath
              /\ NodeAt(soup, PrecedingHeading(candidates[k].pos)).tag = "h3"
              /\ NodeAt(soup, PrecedingHeading(candidates[k].pos))
                     # NodeAt(soup, candidates[k].pos)
              /\ candidates[k].category
                     = GetTextStrip(NodeAt(soup, PrecedingHeading(candidates[k].pos)))
    /\ \A k \in StaticHeadingFeatures : features[k].description # <<>>

(* C14 witness: the heading scan has emitted an h3 with an empty           *)
(* description, and another heading with a non-empty one.                  *)
C14_Witness ==
    /\ HeadingsScanned
    /\ \E k \in HeadingCandidates :
          candidates[k].description = <<>> /\ ScannedEmpty(candidates[k].pos)
    /\ \E k \in HeadingCandidates : candidates[k].description # <<>>

(* C15: the description scan that starts after a heading stops at the      *)
(* first following sibling that is a heading of any rank, h1 to h6:        *)
(* nothing of that heading or of a sibling after it is in the description. *)
AnyRank == {"h1", "h2", "h3", "h4", "h5", "h6"}
(* the document without the first heading sibling after p and without the  *)
(* siblings after it                                                       *)
CutAtHeading(p) ==
    IF FindNextSibling(soup, p, AnyRank) = NoPath THEN soup
    ELSE ReplaceAt(soup, ParentPath(p),
                   [NodeAt(soup, ParentPath(p)) EXCEPT
                       !.kids = SubSeq(@, 1, IndexOf(FindNextSibling(soup, p, AnyRank)) - 1)])
C15_StopsAtAnyHeading ==
    /\ HeadingsScanned =>
          \A k \in 1..Len(scans) :
              scans[k].result
                  = GetFollowingDescription(CutAtHeading(scans[k].heading), scans[k].heading)
    /\ \A k \in StaticHeadingFeatures :
          features[k].description
              = Join(FeatureSiblings(CutAtHeading(features[k].pos),
                                     FindNextSibling(CutAtHeading(features[k].pos),
                                                     features[k].pos, {}),
                                     <<>>),
                     <<"\n", "\n">>)

(* C18: in a description returned by get_following_description the         *)
(* markdown token of an image occurs at most once, also when the image is  *)
(* nested in a sibling block whose text is rendered as well.               *)
Occurrences(s, sub) ==
    Cardinality({i \in 1..(Len(s) - Len(sub) + 1) : SubSeq(s, i, i + Len(sub) - 1) = sub})
ImageTokens ==
    {ImageToMarkdown(NodeAt(soup, FindAll(soup, <<>>, {"img"})[k])) :
        k \in 1..Len(FindAll(soup, <<>>, {"img"}))} \ {<<>>}
C18_ImageTokenOnce ==
    \A k \in 1..Len(scans) :
        \A token \in ImageTokens : Occurrences(scans[k].result, token) <= 1

(* C19: the translator's main checks the API key before anything else:     *)
(* when OPENAI_API_KEY is unset it exits with status 1 without reading the *)
(* input or printing any JSON, even when SKIP_TRANSLATION is "true"; when  *)
(* the key is set and SKIP_TRANSLATION is "true" it prints the input       *)
(* document unchanged, with no "translated" field and no translation call. *)
C19_KeyCheckedFirst ==
    /\ api_key = <<>> =>
          /\ data = <<>> /\ stdout = <<>> /\ tpc = "off" /\ tcalls = <<>>
          /\ mpc \in {"start", "exit"}
          /\ mpc = "exit" => status = 1
    /\ (api_key # <<>> /\ skip_translation = T_True) =>
          /\ tpc = "off" /\ tcalls = <<>>
          /\ mpc = "exit" =>
                /\ status = 0
                /\ stdout = ToJson(input.version, input.features) \o <<"\n">>
                /\ ~Contains(stdout, J_Translated)

(* C19 witness: main has exited with status 1 for want of a key although   *)
(* SKIP_TRANSLATION is "true" and the input holds features.                *)
C19_Witness ==
    /\ api_key = <<>> /\ skip_translation = T_True
    /\ input.features # <<>>
    /\ mpc = "exit" /\ status = 1 /\ stdout = <<>>

====
